---- MODULE Spec2Model ----
(***************************************************************************)
(* A model of covid_abm/model.py: the Sim class (init_results,             *)
(* init_people, run, likelihood) and multi_run.                            *)
(*                                                                         *)
(* The variables describe one Sim object; a second Sim and a multi_run     *)
(* call are kept beside it.  run() is a process whose position is pc: one  *)
(* step per iteration of the person loop, one per contact, one per tested  *)
(* person, one for the removal of the diagnosed, one for the end of the    *)
(* day, one for the code after the day loop.  Every random draw is an \E   *)
(* over the support of the draw.                                           *)
(***************************************************************************)
EXTENDS Integers, Sequences, FiniteSets, TLC

\* ------------------------------------------------------------------ bounds
MaxPeople   == 3    \* n_crew + n_guests is in 1..MaxPeople
MaxDays     == 1    \* n_days is drawn from 0..MaxDays
MaxData     == 2    \* the data file has 0..MaxData rows
MaxTests    == 1    \* a defined daily test count is in 0..MaxTests
MaxContacts == 1    \* a Poisson draw is cut at MaxContacts
MaxSeeds    == 1    \* run(seed_infections) takes 0..MaxSeeds
MaxLikes    == 2    \* top-level calls of likelihood on the Sim
MaxReplicas == 2    \* multi_run(orig_sim, n) takes n in 1..MaxReplicas

\* ---------------------------------------------------------------- sentinels
None   == -100      \* Python None in a date field (Person.__init__)
NaN    == -200      \* a missing value of the data frame
NoLike == 1         \* results has no 'likelihood' key (a log-likelihood is <= 0)

\* ------------------------------------------------------------ small helpers
Abs(x)     == IF x >= 0 THEN x ELSE -x
Range(s)   == {s[k] : k \in 1..Len(s)}

RECURSIVE SumTo(_, _)
\* arr[0] + ... + arr[d]
SumTo(arr, d) == IF d < 0 THEN 0 ELSE arr[d] + SumTo(arr, d - 1)

\* ParsObj.__init__: the keys of the result series
results_keys == {"t", "n_susceptible", "n_exposed", "n_infectious", "n_recovered",
                 "infections", "tests", "diagnoses", "recoveries",
                 "cum_exposed", "cum_tested", "cum_diagnosed"}

VARIABLES
  pars,          \* self.pars
  dataLen,       \* len(self.data)
  data,          \* self.data: new_tests and new_positives, each as far as it was read
  people,        \* self.people: the odict in its order, one record per key
  off_ship,      \* self.off_ship, in insertion order
  results,       \* self.results: key -> series over 0..n_days
  ready,         \* self.results['ready']
  likelihood,    \* self.results['likelihood'], NoLike while the key is absent
  pc,            \* where the running call stands; "idle" between calls
  err,           \* the exception that ended the program, "none" otherwise
  frames,        \* the call stack: "run", "run_cl" (calc_likelihood=True), "likelihood"
  t,             \* the day of the day loop
  i,             \* position of the person loop in people (1-based)
  test_probs,    \* the day's test_probs, in insertion order
  contact_inds,  \* the contacts of the current person still to be visited
  test_inds,     \* the day's test targets still to be visited
  uids_to_pop,   \* uids diagnosed today
  none_ge,       \* what `int >= None` does: "raise", "true" or "false"
  dict_value,    \* what `{}.value()` does: "raise" or "values"
  runs,          \* top-level calls of run so far
  nlike,         \* top-level calls of likelihood that returned so far
  lastLike,      \* what the last top-level likelihood call since the last init_results returned
  loops,         \* how often the day loop was entered
  creations,     \* how often init_people ran
  pop_before,    \* per day: len(people) when the person loop of that day ended
  last_test,     \* the last test of the day: <<index in people, infectious when tested, trial>>
  tape,          \* the global random stream: the draws made from it, in order
  pos,           \* how many draws of the tape the stream has passed
  track,         \* whether tape and pos are kept
  pars0,         \* the values of pars when the Sim was constructed
  other,         \* a second Sim object of the program, <<>> while there is none
  mr             \* the running or returned multi_run call, <<>> while there is none

\* what no step of the program changes
env == <<dataLen, none_ge, dict_value, track, pars0>>

\* the objects beside the Sim the other variables describe
objs == <<other, mr>>

vars == <<pars, dataLen, data, people, off_ship, results, ready, likelihood, pc, err,
          frames, t, i, test_probs, contact_inds, test_inds, uids_to_pop, none_ge,
          dict_value, runs, nlike, lastLike, loops, creations, pop_before, last_test,
          tape, pos, track, pars0, other, mr>>

\* The Sim object the variables describe, with what is counted of its life
Self ==
  [ pars |-> pars, people |-> people, off_ship |-> off_ship, results |-> results,
    ready |-> ready, likelihood |-> likelihood, runs |-> runs, nlike |-> nlike,
    lastLike |-> lastLike, loops |-> loops, creations |-> creations,
    pop_before |-> pop_before ]

\* ------------------------------------------------------------ configuration
\* Probabilities are in percent; rates and weights are integers (1.0 is 1);
\* the factors quarantine_eff and testing_symptoms are in percent.
npts(p) == p.n_days + 1
tvec(p) == 0..p.n_days

ParsSet ==
  [ n_guests : 1..MaxPeople, n_crew : 0..1, n_days : 0..MaxDays,
    r_contact : {50, 100}, sensitivity : {50},
    contacts_guest : {4}, contacts_crew : {8},
    incub : {0, 1}, incub_std : {0}, dur : {1}, dur_std : {0, 1},
    symptomatic : {4}, testing_symptoms : {50},
    quarantine : {1}, quarantine_eff : {50}, testing_change : {1},
    seed : {1}, n : {5}, parallelized : {0} ]

\* The configurations the model starts from: at least one person (the
\* constructor seeds one infection), and either the deterministic setting
\* (r_contact 1.0, no incubation, no spread of the duration) or a random one.
Config(p) ==
  /\ p.n_crew + p.n_guests \in 1..MaxPeople
  /\ (p.r_contact = 100) = (p.dur_std = 0)
  /\ p.dur_std = 0 => p.incub = 0

\* ------------------------------------------------------------------ results
\* Sim.init_results: every series zero-filled
InitResults(p) == [k \in results_keys |-> [d \in tvec(p) |-> 0]]

Inc(res, key, d) == [res EXCEPT ![key][d] = @ + 1]

\* a sum that leaves out the day itself
cumsumBefore(arr) == [d \in DOMAIN arr |-> SumTo(arr, d - 1)]

\* pl.cumsum
cumsum(arr) == [d \in DOMAIN arr |-> SumTo(arr, d)]

\* ------------------------------------------------------------------- people
\* Person.__init__ (age and sex are never read by the Sim and are left out)
NewPerson(p, uid, crew) ==
  [ uid |-> uid, crew |-> crew,
    contacts |-> IF crew = 1 THEN p.contacts_crew ELSE p.contacts_guest,
    exposed |-> FALSE, infectious |-> FALSE, diagnosed |-> FALSE, recovered |-> FALSE,
    date_exposed |-> None, date_infectious |-> None,
    date_diagnosed |-> None, date_recovered |-> None ]

\* crew+guests of init_people: 1 for crew, 0 for a guest, crew first
CrewFlags(p) == [k \in 1..(p.n_crew + p.n_guests) |-> IF k <= p.n_crew THEN 1 ELSE 0]

\* The uids pl.randint(0,1e9) can give N persons, up to renaming: each draw is
\* a uid drawn before or a new one.
UidSeqs(N) ==
  {us \in [1..N -> 1..N] :
     \A k \in 1..N : \A v \in 1..N :
        (us[k] = v /\ v > 1) => \E j \in 1..(k-1) : us[j] = v - 1 \/ us[j] >= v}

\* self.people[person.uid] = person on an odict: a key already there keeps its
\* place and takes the new value
PutPerson(ppl, person) ==
  IF \E j \in 1..Len(ppl) : ppl[j].uid = person.uid
    THEN [j \in 1..Len(ppl) |-> IF ppl[j].uid = person.uid THEN person ELSE ppl[j]]
    ELSE Append(ppl, person)

RECURSIVE BuildPeople(_, _, _)
\* the loop of init_people over the first k of crew+guests
BuildPeople(p, us, k) ==
  IF k = 0 THEN <<>>
  ELSE PutPerson(BuildPeople(p, us, k - 1), NewPerson(p, us[k], CrewFlags(p)[k]))

\* a seeding that sets infectious and leaves exposed unset
SeedInfectiousOnly(ppl, si) ==
  [k \in 1..Len(ppl) |->
     IF k <= si
       THEN [ppl[k] EXCEPT !.infectious = TRUE, !.date_exposed = 0, !.date_infectious = 0]
       ELSE ppl[k]]

\* init_people, "Create the seed infections": the first si persons by position
SeedInfections(ppl, si) ==
  [k \in 1..Len(ppl) |->
     IF k <= si
       THEN [ppl[k] EXCEPT !.exposed = TRUE, !.infectious = TRUE,
                           !.date_exposed = 0, !.date_infectious = 0]
       ELSE ppl[k]]

\* init_people: the population, and whether self.people[i] found every seed
InitPeople(p, si, us) ==
  LET built == BuildPeople(p, us, p.n_crew + p.n_guests)
  IN  [people |-> SeedInfections(built, si), ok |-> si <= Len(built)]

\* ------------------------------------------------------------ random stream
\* One draw of the stream: what was asked for (kind) and what came out.
DrawOf(name, a, b, num, seq) == [kind |-> <<name, a, b>>, num |-> num, seq |-> seq]

\* The draws ds agree with what the tape holds from position from on.
Replay(from, ds) ==
  \A j \in 1..Len(ds) :
     (from + j <= Len(tape) /\ tape[from + j].kind = ds[j].kind) => tape[from + j] = ds[j]

\* The stream after the draws ds made from position from: positions past the
\* end of the tape are written.
StreamAt(from, ds) ==
  IF track
    THEN /\ Replay(from, ds)
         /\ pos' = from + Len(ds)
         /\ tape' = IF from + Len(ds) <= Len(tape) THEN tape
                    ELSE tape \o SubSeq(ds, Len(tape) - from + 1, Len(ds))
    ELSE UNCHANGED <<tape, pos>>

\* The draws ds made where the stream stands
Stream(ds) == StreamAt(pos, ds)

\* cov_ut.bt(prob): a Bernoulli trial
bt(prob) == IF prob >= 100 THEN {TRUE} ELSE IF prob <= 0 THEN {FALSE} ELSE BOOLEAN

\* np.random.poisson(rate, 1), cut at MaxContacts
poisson(rate) == IF rate > 0 THEN 0..MaxContacts ELSE {0}

\* cov_ut.choose_people(max_ind, n): n distinct indices below max_ind
choose_people(max_ind, n) ==
  {s \in [1..n -> 0..(max_ind - 1)] : \A a, b \in 1..n : a # b => s[a] # s[b]}

\* round(pl.normal(mean, std)), cut at one standard deviation
normal_round(mean, std) == (mean - std)..(mean + std)

\* cov_ut.choose_people_weighted(probs, n): n distinct indices of positive weight
choose_people_weighted(probs, n) ==
  {s \in [1..n -> 0..(Len(probs) - 1)] :
     /\ \A a, b \in 1..n : a # b => s[a] # s[b]
     /\ \A a \in 1..n : probs[s[a] + 1] > 0}

\* ----------------------------------------------------------- program errors
\* An uncaught exception ends the program where it is raised.
Raise(e) == pc' = "error" /\ err' = e

\* ------------------------------------------------------------------ run()
\* Sim.run up to the first iteration of the day loop: init_results, init_people
\* on the Sim object sim
EnterRunOf(sim, fr, si, us) ==
  LET ip == InitPeople(sim.pars, si, us) IN
  /\ results' = InitResults(sim.pars) /\ ready' = FALSE
  /\ likelihood' = NoLike /\ lastLike' = NoLike
  /\ people' = ip.people /\ off_ship' = <<>>
  /\ creations' = sim.creations + 1
  /\ Stream(<<DrawOf("uids", Len(us), 0, 0, us)>>)
  /\ frames' = fr
  /\ IF ip.ok THEN pc' = "people" /\ err' = err /\ loops' = sim.loops + 1
              ELSE Raise("SeedIndexError") /\ loops' = sim.loops
  /\ t' = 0 /\ i' = 1 /\ test_probs' = <<>>
  /\ contact_inds' = <<>> /\ test_inds' = <<>> /\ uids_to_pop' = <<>>
  /\ pop_before' = [d \in tvec(sim.pars) |-> None]
  /\ last_test' = <<>>

\* the same on the Sim the variables describe
EnterRun(fr, si, us) == EnterRunOf(Self, fr, si, us)

\* A top-level call sim.run(seed_infections=si, calc_likelihood=cl) with si in
\* seeds, the first call on the Sim
RunCall(cl, seeds) ==
  /\ pc = "idle" /\ runs = 0 /\ nlike = 0 /\ ~ready
  /\ \E si \in seeds, us \in UidSeqs(pars.n_crew + pars.n_guests) :
        EnterRun(<<IF cl THEN "run_cl" ELSE "run">>, si, us)
  /\ runs' = runs + 1
  /\ UNCHANGED <<pars, data, nlike, env, objs>>

\* sim.run(seed_infections=si)
RunStart == RunCall(FALSE, 0..MaxSeeds)

\* sim.run(): seed_infections has its default
RunDefault == RunCall(FALSE, {1})

\* sim.run(seed_infections=si, calc_likelihood=True)
RunStartCL == RunCall(TRUE, 0..MaxSeeds)

\* `t >= person.date_recovered`: "raise", "true" or "false"
RecoveryDue(p, day) ==
  IF p.date_recovered = None THEN none_ge
  ELSE IF day >= p.date_recovered THEN "true" ELSE "false"

\* "Count people who recovered", then the person loop moves on; after the last
\* person the day goes on to testing.
EndPerson(ppl, res) ==
  /\ people' = ppl
  /\ results' = IF ppl[i].recovered THEN Inc(res, "n_recovered", t) ELSE res
  /\ contact_inds' = <<>>
  /\ IF i < Len(ppl)
       THEN i' = i + 1 /\ pc' = "people" /\ pop_before' = pop_before
       ELSE i' = i /\ pc' = "testing" /\ pop_before' = [pop_before EXCEPT ![t] = Len(ppl)]
  /\ err' = err

\* "If exposed, check if the person becomes infectious"
BecomeInfectious(p, day) ==
  IF p.exposed /\ ~p.infectious /\ day >= p.date_infectious
    THEN [p EXCEPT !.infectious = TRUE] ELSE p

\* "First, check for recovery": the flags of a person who recovers
Recover(p) == [p EXCEPT !.exposed = FALSE, !.infectious = FALSE, !.recovered = TRUE]

\* One iteration of `for person in self.people.values()`, up to the contact loop
PersonStep ==
  /\ pc = "people"
  /\ LET p0  == people[i]
         w   == IF p0.infectious THEN pars.symptomatic ELSE 1
         r1  == IF p0.exposed THEN Inc(results, "n_exposed", t) ELSE results
         p1  == BecomeInfectious(p0, t)
         ppl == [people EXCEPT ![i] = p1]
         due == RecoveryDue(p1, t)
     IN /\ test_probs' = Append(test_probs, w)
        /\ IF ~p1.infectious
             THEN EndPerson(ppl, r1) /\ Stream(<<>>)
           ELSE IF due = "raise"
             THEN /\ Raise("TypeError") /\ people' = ppl /\ results' = r1
                  /\ UNCHANGED <<i, contact_inds, pop_before>> /\ Stream(<<>>)
           ELSE IF due = "true"
             THEN /\ EndPerson([ppl EXCEPT ![i] = Recover(p1)], Inc(r1, "recoveries", t))
                  /\ Stream(<<>>)
           ELSE \E n \in poisson(p1.contacts) :
                  IF choose_people(Len(people), n) = {}
                    \* more contacts than people to choose from
                    THEN /\ Raise("ValueError")
                         /\ people' = ppl /\ results' = Inc(r1, "n_infectious", t)
                         /\ Stream(<<DrawOf("poisson", p1.contacts, 0, n, <<>>)>>)
                         /\ UNCHANGED <<i, contact_inds, pop_before>>
                  ELSE \E cs \in choose_people(Len(people), n) :
                    /\ Stream(<<DrawOf("poisson", p1.contacts, 0, n, <<>>),
                               DrawOf("choose", Len(people), n, 0, cs)>>)
                    /\ IF n = 0
                         THEN EndPerson(ppl, Inc(r1, "n_infectious", t))
                         ELSE /\ people' = ppl /\ results' = Inc(r1, "n_infectious", t)
                              /\ contact_inds' = cs /\ pc' = "contacts"
                              /\ UNCHANGED <<i, err, pop_before>>
  /\ UNCHANGED <<pars, data, off_ship, ready, likelihood, frames, t, test_inds, uids_to_pop, runs, nlike, lastLike, loops, creations, last_test, env, objs>>

\* The Susceptible -> Exposed transition of a contact on day `day`
Expose(p, day, incub_dist, dur_dist) ==
  [p EXCEPT !.exposed = TRUE, !.date_exposed = day,
            !.date_infectious = day + incub_dist,
            !.date_recovered = day + incub_dist + dur_dist]

\* One iteration of `for contact_ind in contact_inds`
ContactStep ==
  /\ pc = "contacts"
  /\ LET c      == Head(contact_inds) + 1
         rest   == Tail(contact_inds)
         target == people[c]
     IN \E exposure \in bt(pars.r_contact) :
        \E incub_dist \in normal_round(pars.incub, pars.incub_std) :
        \E dur_dist \in normal_round(pars.dur, pars.dur_std) :
          LET hit  == exposure /\ ~target.exposed
              ppl  == IF hit THEN [people EXCEPT ![c] = Expose(target, t, incub_dist, dur_dist)]
                             ELSE people
              res  == IF hit THEN Inc(results, "infections", t) ELSE results
              d1   == <<DrawOf("bt", pars.r_contact, 0, IF exposure THEN 1 ELSE 0, <<>>)>>
              d2   == <<DrawOf("normal", pars.incub, pars.incub_std, incub_dist, <<>>),
                        DrawOf("normal", pars.dur, pars.dur_std, dur_dist, <<>>)>>
          IN /\ ~hit => (incub_dist = pars.incub /\ dur_dist = pars.dur)
             /\ Stream(IF hit THEN d1 \o d2 ELSE d1)
             /\ IF rest = <<>>
                  THEN EndPerson(ppl, res)
                  ELSE /\ people' = ppl /\ results' = res /\ contact_inds' = rest
                       /\ UNCHANGED <<pc, i, err, pop_before>>
  /\ UNCHANGED <<pars, data, off_ship, ready, likelihood, frames, t, test_probs, test_inds, uids_to_pop, runs, nlike, lastLike, loops, creations, last_test, env, objs>>

\* ----------------------------------------------------------------- the data
\* The data frame is read-only.  A value is fixed when it is first read: the
\* day's new_tests by that day's testing, new_positives by likelihood.
TestValues     == {NaN} \cup 0..MaxTests
PositiveValues == {NaN, 0, 1}

\* daily_tests.iloc[day]: v is the value of the row, data as it is after the read
ReadTests(day, v) ==
  IF day + 1 <= Len(data.new_tests)
    THEN v = data.new_tests[day + 1] /\ data' = data
    ELSE v \in TestValues /\ data' = [data EXCEPT !.new_tests = Append(@, v)]

\* self.data['new_positives'] as likelihood reads it: the whole column
ReadPositives(col) ==
  IF Len(data.new_positives) = dataLen
    THEN col = data.new_positives /\ data' = data
    ELSE col \in [1..dataLen -> PositiveValues] /\ data' = [data EXCEPT !.new_positives = col]

\* ------------------------------------------------------------------ testing
\* `if n_tests and not pl.isnan(n_tests)`
TestsToday(n_tests) == n_tests # 0 /\ n_tests # NaN

\* "Implement testing" up to the loop over the test targets
Testing ==
  /\ pc = "testing"
  /\ IF t < dataLen
       THEN \E n_tests \in TestValues :
              /\ ReadTests(t, n_tests)
              /\ IF TestsToday(n_tests)
                   THEN /\ results' = [results EXCEPT !["tests"][t] = n_tests]
                        /\ IF dict_value = "raise"
                             THEN /\ Raise("AttributeError") /\ Stream(<<>>)
                                  /\ UNCHANGED <<test_inds, uids_to_pop>>
                           ELSE IF choose_people_weighted(test_probs, n_tests) = {}
                             \* more tests than people of positive weight
                             THEN /\ Raise("TestValueError") /\ Stream(<<>>)
                                  /\ UNCHANGED <<test_inds, uids_to_pop>>
                           ELSE \E inds \in choose_people_weighted(test_probs, n_tests) :
                                  /\ Stream(<<DrawOf("weighted", Len(test_probs), n_tests, 0, inds)>>)
                                  /\ test_inds' = inds /\ uids_to_pop' = <<>>
                                  /\ pc' = "testloop" /\ err' = err
                   ELSE /\ pc' = "endday" /\ Stream(<<>>)
                        /\ UNCHANGED <<results, err, test_inds, uids_to_pop>>
       ELSE /\ pc' = "endday" /\ Stream(<<>>)
            /\ UNCHANGED <<data, results, err, test_inds, uids_to_pop>>
  /\ UNCHANGED <<pars, people, off_ship, ready, likelihood, frames, t, i, test_probs, contact_inds, runs, nlike, lastLike, loops, creations, pop_before, last_test, env, objs>>

\* a diagnosis on the trial alone
DiagnoseOnTrial(tested, trial) == trial

\* `tested_person.infectious and cov_ut.bt(sensitivity)`: whether the person
\* is diagnosed; the trial is drawn only for an infectious person
Diagnose(tested, trial) == tested.infectious /\ trial

\* One iteration of `for test_ind in test_inds`
TestOne ==
  /\ pc = "testloop"
  /\ LET ind    == Head(test_inds) + 1
         tested == people[ind]
     IN \E trial \in bt(pars.sensitivity) :
          /\ ~tested.infectious => trial = (pars.sensitivity > 0)
          /\ Stream(IF tested.infectious
                      THEN <<DrawOf("bt", pars.sensitivity, 0, IF trial THEN 1 ELSE 0, <<>>)>>
                      ELSE <<>>)
          /\ last_test' = <<ind, tested.infectious, trial>>
          /\ IF Diagnose(tested, trial)
               THEN /\ results' = Inc(results, "diagnoses", t)
                    /\ people' = [people EXCEPT ![ind].diagnosed = TRUE]
                    /\ uids_to_pop' = Append(uids_to_pop, tested.uid)
               ELSE UNCHANGED <<results, people, uids_to_pop>>
          /\ test_inds' = Tail(test_inds)
          /\ pc' = IF Tail(test_inds) = <<>> THEN "remove" ELSE "testloop"
  /\ UNCHANGED <<pars, data, off_ship, ready, likelihood, err, frames, t, i, test_probs, contact_inds, runs, nlike, lastLike, loops, creations, pop_before, env, objs>>

\* a removal that pops nobody
PopNobody(ppl, uids) == ppl

\* self.people after `self.people.pop(uid)` for every uid of uids
PopPeople(ppl, uids) == SelectSeq(ppl, LAMBDA q : q.uid \notin Range(uids))

RECURSIVE PutOffShip(_, _, _, _)
\* self.off_ship after `self.off_ship[uid] = self.people.pop(uid)` for the
\* first k uids of uids
PutOffShip(off, ppl, uids, k) ==
  IF k = 0 THEN off
  ELSE PutPerson(PutOffShip(off, ppl, uids, k - 1),
                 CHOOSE q \in Range(ppl) : q.uid = uids[k])

\* "Remove people from the ship once they're diagnosed"
RemoveDiagnosed ==
  /\ pc = "remove"
  /\ people' = PopPeople(people, uids_to_pop)
  /\ off_ship' = PutOffShip(off_ship, people, uids_to_pop, Len(uids_to_pop))
  /\ uids_to_pop' = <<>> /\ last_test' = <<>>
  /\ pc' = "endday"
  /\ UNCHANGED <<pars, data, results, ready, likelihood, err, frames, t, i, test_probs, contact_inds, test_inds, runs, nlike, lastLike, loops, creations, pop_before, tape, pos, env, objs>>

\* ------------------------------------------------------------ end of the day
\* "Implement quarantine": the contact rate of everyone still in people
Quarantine(ppl, p, day) ==
  IF day = p.quarantine
    THEN [k \in 1..Len(ppl) |-> [ppl[k] EXCEPT !.contacts = (@ * p.quarantine_eff) \div 100]]
    ELSE ppl

\* "Implement testing change": pars['symptomatic']
TestingChange(p, day) ==
  IF day = p.testing_change
    THEN [p EXCEPT !.symptomatic = (@ * p.testing_symptoms) \div 100]
    ELSE p

\* "Store other results"
StoreOther(res, ppl, day) ==
  [res EXCEPT !["t"][day] = day,
              !["n_susceptible"][day] = Len(ppl) - res["n_exposed"][day]]

\* The rest of the day after testing, and the step of the day loop
EndDay ==
  /\ pc = "endday"
  /\ people' = Quarantine(people, pars, t)
  /\ pars' = TestingChange(pars, t)
  /\ results' = StoreOther(results, people, t)
  /\ IF t + 1 < npts(pars)
       THEN /\ t' = t + 1 /\ i' = 1 /\ test_probs' = <<>>
            /\ IF Len(people) = 0
                 THEN pc' = "testing" /\ pop_before' = [pop_before EXCEPT ![t + 1] = 0]
                 ELSE pc' = "people" /\ pop_before' = pop_before
       ELSE pc' = "finish" /\ UNCHANGED <<t, i, test_probs, pop_before>>
  /\ UNCHANGED <<data, off_ship, ready, likelihood, err, frames, contact_inds, test_inds, uids_to_pop, runs, nlike, lastLike, loops, creations, last_test, tape, pos, env, objs>>

\* --------------------------------------------------------------- likelihood
\* pl.log(cov_ps.poisson_test(datum, estimate)): the log of a p-value
logp(datum, estimate) == 0 - Abs(datum - estimate)

\* `if not pl.isnan(datum)`: the day is scored
Scored(col, d) == col[d + 1] # NaN

\* The days 0..d-1 of the loop of likelihood that are scored
ScoredDays(col, d) == {e \in 0..(d - 1) : Scored(col, e)}

RECURSIVE loglikeOnTop(_, _, _)
\* a loglike that starts from results['likelihood'] where there is one
loglikeOnTop(diagnoses, col, d) ==
  IF d = 0 THEN (IF likelihood = NoLike THEN 0 ELSE likelihood)
  ELSE loglikeOnTop(diagnoses, col, d - 1)
       + (IF Scored(col, d - 1) THEN logp(col[d], diagnoses[d - 1]) ELSE 0)

RECURSIVE loglike(_, _, _)
\* loglike after the days 0..d-1 of the loop over new_positives
loglike(diagnoses, col, d) ==
  IF d = 0 THEN 0
  ELSE loglike(diagnoses, col, d - 1)
       + (IF Scored(col, d - 1) THEN logp(col[d], diagnoses[d - 1]) ELSE 0)

\* Whether `self.results['diagnoses'][d]` is in range on every scored day
InRange(diagnoses, col) == \A d \in ScoredDays(col, Len(col)) : d \in DOMAIN diagnoses

\* "Compute cumulative results"
Cumulative(res) ==
  [res EXCEPT !["cum_exposed"]   = cumsum(res["infections"]),
              !["cum_tested"]    = cumsum(res["tests"]),
              !["cum_diagnosed"] = cumsum(res["diagnoses"])]

\* ---------------------------------------------------------------- multi_run
\* odict.update: the persons of more put into ppl, the first k of them
RECURSIVE UpdatePeople(_, _, _)
UpdatePeople(ppl, more, k) ==
  IF k = 0 THEN ppl ELSE PutPerson(UpdatePeople(ppl, more, k - 1), more[k])

\* The uids of another replica are drawn by another process: they are the
\* numbers of the first replica (off = 0) or others (off > 0).
Rename(ppl, off) == [j \in 1..Len(ppl) |-> [ppl[j] EXCEPT !.uid = @ + off]]

\* The body of `for sim in finished_sims[1:]`: people updated, every series
\* but 't' added.  results['ready'] is added too: True + True is 2, which is
\* true.
MergeOne(out, sim, off) ==
  [out EXCEPT !.people = UpdatePeople(out.people, Rename(sim.people, off), Len(sim.people)),
              !.results = [key \in results_keys |->
                             IF key = "t" THEN out.results[key]
                             ELSE [d \in DOMAIN out.results[key] |->
                                     out.results[key][d] + sim.results[key][d]]]]

RECURSIVE MergeFrom(_, _, _, _)
\* the loop over finished_sims from its k-th sim on
MergeFrom(out, fin, offs, k) ==
  IF k > Len(fin) THEN out
  ELSE MergeFrom(MergeOne(out, fin[k], offs[k]), fin, offs, k + 1)

\* a merge whose loop does not skip the first finished sim
MergeEvery(fin, n, offs) ==
  MergeFrom([fin[1] EXCEPT !.pars.parallelized = n, !.pars.n = @ * n], fin, offs, 1)

\* multi_run after sc.parallelize: output_sim
Merge(fin, n, offs) ==
  MergeFrom([fin[1] EXCEPT !.pars.parallelized = n, !.pars.n = @ * n], fin, offs, 2)

\* "Copy the simulations": the k-th of n deep copies of orig_sim
Replica(orig, n, k) ==
  [orig EXCEPT !.pars.seed = @ + (k - 1), !.pars.n = @ \div n]

\* single_run(sim) on the replica sim: sim.run()
SingleRun(sim) ==
  /\ \E us \in UidSeqs(sim.pars.n_crew + sim.pars.n_guests) :
        EnterRunOf(sim, <<"single_run", "run">>, 1, us)
  /\ pars' = sim.pars /\ runs' = sim.runs + 1 /\ nlike' = sim.nlike

\* A call multi_run(orig_sim, n) on the Sim as constructed.  The replicas run
\* one after the other: they share no state.
MultiRun ==
  /\ pc = "idle" /\ mr = <<>> /\ other = <<>> /\ runs = 0 /\ nlike = 0 /\ ~ready
  /\ \E n \in 1..MaxReplicas :
       /\ mr' = <<[n |-> n, orig |-> Self, finished |-> <<>>, done |-> FALSE]>>
       /\ SingleRun(Replica(Self, n, 1))
  /\ UNCHANGED <<data, other, env>>

\* single_run returns its sim to multi_run: the next replica runs, or the
\* finished sims are merged and multi_run returns output_sim, which the
\* variables describe from then on.
ReturnToMulti(res) ==
  LET m   == mr[1]
      fin == Append(m.finished, [Self EXCEPT !.results = res, !.ready = TRUE])
  IN IF Len(fin) < m.n
       THEN /\ mr' = <<[m EXCEPT !.finished = fin]>>
            /\ SingleRun(Replica(m.orig, m.n, Len(fin) + 1))
       ELSE \E offs \in [1..m.n -> {0, MaxPeople}] :
              LET out == Merge(fin, m.n, offs)
              IN /\ mr' = <<[m EXCEPT !.finished = fin, !.done = TRUE]>>
                 /\ pars' = out.pars /\ people' = out.people /\ off_ship' = out.off_ship
                 /\ results' = out.results /\ ready' = out.ready
                 /\ likelihood' = out.likelihood
                 /\ frames' = <<>> /\ pc' = "idle"
                 /\ UNCHANGED <<err, runs, nlike, lastLike, t, i, test_probs, contact_inds, test_inds, uids_to_pop, loops, creations, pop_before, last_test, tape, pos>>

\* ------------------------------------------------------------ return of run
\* The code of run after the day loop, with what its return resumes: the
\* likelihood that called it and the run that called that likelihood, or
\* multi_run.
Finish ==
  /\ pc = "finish"
  /\ LET res == Cumulative(results)
         top == frames[Len(frames)]
         caller == IF Len(frames) >= 2 THEN frames[Len(frames) - 1] ELSE "none"
     IN IF top = "run_cl"
          \* self.likelihood() finds results not ready and calls self.run
          THEN /\ \E us \in UidSeqs(pars.n_crew + pars.n_guests) :
                     EnterRun(frames \o <<"likelihood", "run">>, 1, us)
               /\ UNCHANGED <<pars, runs, data, nlike, mr>>
        ELSE IF caller = "likelihood"
          THEN \E col \in [1..dataLen -> PositiveValues] :
                 /\ ReadPositives(col)
                 /\ results' = res /\ ready' = TRUE
                 \* the run that called likelihood returns after it
                 /\ frames' = <<>>
                 /\ IF InRange(res["diagnoses"], col)
                      THEN /\ likelihood' = loglike(res["diagnoses"], col, Len(col))
                           /\ pc' = "idle" /\ err' = err
                           /\ IF Len(frames) = 2
                                THEN /\ nlike' = nlike + 1
                                     /\ lastLike' = loglike(res["diagnoses"], col, Len(col))
                                ELSE UNCHANGED <<nlike, lastLike>>
                      ELSE /\ Raise("IndexError")
                           /\ UNCHANGED <<likelihood, nlike, lastLike>>
                 /\ UNCHANGED <<pars, runs, mr, people, off_ship, t, i, test_probs, contact_inds, test_inds, uids_to_pop, loops, creations, pop_before, last_test, tape, pos>>
        ELSE IF caller = "single_run"
          THEN ReturnToMulti(res) /\ data' = data
        ELSE /\ results' = res /\ ready' = TRUE
             /\ frames' = <<>> /\ pc' = "idle"
             /\ UNCHANGED <<pars, runs, mr, data, likelihood, err, nlike, lastLike, people, off_ship, t, i, test_probs, contact_inds, test_inds, uids_to_pop, loops, creations, pop_before, last_test, tape, pos>>
  /\ UNCHANGED <<other, env>>

\* A top-level call sim.likelihood()
Likelihood ==
  /\ pc = "idle" /\ nlike < MaxLikes
  /\ IF ~ready
       THEN /\ \E us \in UidSeqs(pars.n_crew + pars.n_guests) :
                  EnterRun(<<"likelihood", "run">>, 1, us)
            /\ UNCHANGED <<data, nlike>>
       ELSE \E col \in [1..dataLen -> PositiveValues] :
              /\ ReadPositives(col)
              /\ IF InRange(results["diagnoses"], col)
                   THEN /\ likelihood' = loglike(results["diagnoses"], col, Len(col))
                        /\ lastLike' = loglike(results["diagnoses"], col, Len(col))
                        /\ nlike' = nlike + 1
                        /\ UNCHANGED <<pc, err>>
                   ELSE /\ Raise("IndexError")
                        /\ UNCHANGED <<likelihood, lastLike, nlike>>
              /\ UNCHANGED <<results, ready, people, off_ship, frames, t, i, test_probs, contact_inds, test_inds, uids_to_pop, loops, creations, pop_before, last_test, tape, pos>>
  /\ UNCHANGED <<pars, runs, env, objs>>

\* ------------------------------------------------------------- a second Sim
\* Sim(pars, datafile) once more, with the configuration and the data of the
\* first: set_seed puts the stream back to its start, init_people draws from
\* there.  The variables describe the new Sim; the first is kept in other.
NewSim ==
  /\ pc = "idle" /\ other = <<>> /\ mr = <<>>
  /\ other' = <<Self>>
  /\ \E us \in UidSeqs(pars.n_crew + pars.n_guests) :
       /\ people' = InitPeople(pars, 1, us).people
       /\ StreamAt(0, <<DrawOf("uids", Len(us), 0, 0, us)>>)
  /\ results' = InitResults(pars) /\ ready' = FALSE /\ likelihood' = NoLike
  /\ off_ship' = <<>>
  /\ runs' = 0 /\ nlike' = 0 /\ lastLike' = NoLike /\ loops' = 0 /\ creations' = 1
  /\ pop_before' = [d \in tvec(pars) |-> None]
  /\ UNCHANGED <<pars, data, pc, err, frames, t, i, test_probs, contact_inds, test_inds, uids_to_pop, last_test, mr, env>>

\* run() on the Sim kept in other, its first run: from here on the variables
\* describe that Sim, and other the one they described.
RunOther ==
  /\ pc = "idle" /\ other # <<>> /\ other[1].runs = 0 /\ other[1].nlike = 0
  /\ other' = <<Self>>
  /\ \E us \in UidSeqs(other[1].pars.n_crew + other[1].pars.n_guests) :
        EnterRunOf(other[1], <<"run">>, 1, us)
  /\ pars' = other[1].pars /\ runs' = other[1].runs + 1 /\ nlike' = other[1].nlike
  /\ UNCHANGED <<data, mr, env>>

\* ------------------------------------------------------------ specification
\* Sim.__init__: set_seed, init_results, init_people() with its default of one
\* seed infection.  The data file has dataLen rows.
Constructed(p, us, tr) ==
  /\ pars = p /\ pars0 = p
  /\ data = [new_tests |-> <<>>, new_positives |-> <<>>]
  /\ results = InitResults(p) /\ ready = FALSE /\ likelihood = NoLike
  /\ people = InitPeople(p, 1, us).people /\ off_ship = <<>>
  /\ pc = "idle" /\ err = "none" /\ frames = <<>>
  /\ t = 0 /\ i = 1 /\ test_probs = <<>> /\ contact_inds = <<>>
  /\ test_inds = <<>> /\ uids_to_pop = <<>>
  /\ runs = 0 /\ nlike = 0 /\ lastLike = NoLike /\ loops = 0 /\ creations = 1
  /\ pop_before = [d \in tvec(p) |-> None]
  /\ last_test = <<>>
  /\ track = tr
  /\ tape = IF tr THEN <<DrawOf("uids", Len(us), 0, 0, us)>> ELSE <<>>
  /\ pos = IF tr THEN 1 ELSE 0
  /\ other = <<>> /\ mr = <<>>

\* What the two expressions of run that Python does not define do: CPython 3
\* raises TypeError for `int >= None` and AttributeError for `{}.value()`.
\* The other two valuations follow the day loop past these two lines: the
\* comparison with an unset date is false, or true, and the weights are the
\* values of test_probs.
Interpreters == {<<"raise", "raise">>, <<"false", "values">>, <<"true", "values">>}

Init ==
  /\ \E p \in ParsSet : \E us \in UidSeqs(p.n_crew + p.n_guests) :
        Config(p) /\ Constructed(p, us, FALSE)
  /\ dataLen \in 0..MaxData
  /\ \E ip \in Interpreters : none_ge = ip[1] /\ dict_value = ip[2]

Next ==
  \/ RunStart
  \/ PersonStep
  \/ ContactStep
  \/ Testing
  \/ TestOne
  \/ RemoveDiagnosed
  \/ EndDay
  \/ Finish
  \/ Likelihood

Spec == Init /\ [][Next]_vars

\* ---------------------------------------------------------------- Scenario A
\* 2 guests, no crew, r_contact 1.0, contact rate 1 for all, incubation 0 and
\* duration 1 without spread, 3 days, no testing data; the quarantine day is
\* in the run or after it.
ScenarioA ==
  [ n_guests : {2}, n_crew : {0}, n_days : {3},
    r_contact : {100}, sensitivity : {50},
    contacts_guest : {1}, contacts_crew : {1},
    incub : {0}, incub_std : {0}, dur : {1}, dur_std : {0},
    symptomatic : {4}, testing_symptoms : {50},
    quarantine : {1, 5}, quarantine_eff : {50}, testing_change : {1},
    seed : {1}, n : {5}, parallelized : {0} ]

InitA ==
  /\ \E p \in ScenarioA : \E us \in UidSeqs(p.n_crew + p.n_guests) :
        Constructed(p, us, FALSE)
  /\ dataLen = 0
  /\ \E ip \in Interpreters : none_ge = ip[1] /\ dict_value = ip[2]

\* sim.run() with its default of one seed infection; without data no one is
\* tested
NextA ==
  \/ RunDefault
  \/ PersonStep
  \/ ContactStep
  \/ Testing
  \/ EndDay
  \/ Finish

SpecA == InitA /\ [][NextA]_vars

\* ------------------------------------------------------------- two Sims
\* Two Sims of one configuration, one data file (without rows) and one seed,
\* each run once with the default seed_infections; the stream is followed.
InitRepro ==
  /\ \E p \in ParsSet : \E us \in UidSeqs(p.n_crew + p.n_guests) :
        /\ Config(p) /\ p.n_guests = 2 /\ p.n_crew = 0 /\ p.n_days = 0
        /\ Constructed(p, us, TRUE)
  /\ dataLen = 0
  /\ \E ip \in Interpreters : none_ge = ip[1] /\ dict_value = ip[2]

NextRepro ==
  \/ RunDefault
  \/ NewSim
  \/ RunOther
  \/ PersonStep
  \/ ContactStep
  \/ Testing
  \/ EndDay
  \/ Finish

SpecRepro == InitRepro /\ [][NextRepro]_vars

\* ----------------------------------------------------------------- multi_run
\* multi_run on a Sim as constructed, of at most two persons
InitMulti ==
  /\ \E p \in ParsSet : \E us \in UidSeqs(p.n_crew + p.n_guests) :
        /\ Config(p) /\ p.n_crew + p.n_guests <= 2
        /\ Constructed(p, us, FALSE)
  /\ dataLen \in 0..1
  /\ \E ip \in Interpreters : none_ge = ip[1] /\ dict_value = ip[2]

NextMulti ==
  \/ MultiRun
  \/ PersonStep
  \/ ContactStep
  \/ Testing
  \/ TestOne
  \/ RemoveDiagnosed
  \/ EndDay
  \/ Finish

SpecMulti == InitMulti /\ [][NextMulti]_vars

\* ------------------------------------------------ run(calc_likelihood=True)
\* One call sim.run(seed_infections=si, calc_likelihood=True) on a Sim as
\* constructed
NextCL ==
  \/ RunStartCL
  \/ PersonStep
  \/ ContactStep
  \/ Testing
  \/ TestOne
  \/ RemoveDiagnosed
  \/ EndDay
  \/ Finish

SpecCL == Init /\ [][NextCL]_vars

\* ------------------------------------------------------------------- claims
\* Everyone the Sim holds: the people on the ship and those moved off it
Everyone == Range(people) \cup Range(off_ship)

\* Day d of the running or finished run has been stored: "Store other results"
\* ran for it.
DayStored(d) == pop_before[d] # None /\ (d < t \/ pc \in {"finish", "idle"})

C2_State ==
  /\ pc \notin {"testloop", "remove"} => \A k \in 1..Len(people) : ~people[k].diagnosed
  /\ \A k \in 1..Len(off_ship) : off_ship[k].diagnosed
  /\ \A a \in Range(people) : \A b \in Range(off_ship) : a.uid # b.uid

\* C2, the steps: while init_people does not run, people does not grow and
\* what is in off_ship stays there as it is.
C2_Step ==
  creations' = creations =>
     /\ Len(people') <= Len(people)
     /\ Len(off_ship') >= Len(off_ship)
     /\ SubSeq(off_ship', 1, Len(off_ship)) = off_ship

\* C2: a diagnosed person is in off_ship and out of people when the testing
\* step of the day is over, is never visited, counted, changed or put back
\* after that; people and off_ship are disjoint and people never grows during
\* the day loop.
C2_DiagnosedLeave == []C2_State /\ [][C2_Step]_vars

\* C2: a day after a diagnosis is under way
C2_Witness == Len(off_ship) > 0 /\ pc = "people" /\ t >= 1

\* C3: in the results a run returned, the three cumulative series are the
\* prefix sums of infections, tests and diagnoses on every day.
C3_PrefixSums ==
  ready =>
    \A d \in tvec(pars) :
       /\ results["cum_exposed"][d] = SumTo(results["infections"], d)
       /\ results["cum_tested"][d] = SumTo(results["tests"], d)
       /\ results["cum_diagnosed"][d] = SumTo(results["diagnoses"], d)

\* C3: a returned run with infections on two days, a test and a diagnosis
C3_Witness ==
  /\ ready /\ pars.n_days = 1
  /\ results["infections"][0] = 1 /\ results["infections"][1] = 1
  /\ results["cum_exposed"][1] = 2
  /\ results["cum_tested"][1] >= 1 /\ results["cum_diagnosed"][1] >= 1

\* C4, the step: a call of likelihood that returns on a Sim whose results are
\* ready leaves the series, the population and the counts of loops and
\* creations alone, writes what it returns to results['likelihood'], and
\* returns what the call before it returned.
C4_Step ==
  (ready /\ nlike' = nlike + 1) =>
     /\ results' = results /\ ready'
     /\ people' = people /\ off_ship' = off_ship
     /\ loops' = loops /\ creations' = creations
     /\ likelihood' = lastLike'
     /\ lastLike # NoLike => lastLike' = lastLike

\* C4: on a Sim with ready results two calls of likelihood in a row return
\* the same number, and neither runs the day loop, creates the population or
\* changes a series.
C4_LikelihoodIdempotent == [][C4_Step]_vars

\* C4: two calls have returned a likelihood that is not zero
C4_Witness == ready /\ nlike = 2 /\ lastLike < 0 /\ likelihood = lastLike

\* The flags and dates of a population in its order, without the uids
Flags(ppl) == [k \in 1..Len(ppl) |-> [ppl[k] EXCEPT !.uid = 0]]

C6_DiagnosedOnlyIfInfectious ==
  /\ \A q \in Everyone : q.diagnosed => q.infectious
  /\ \A k \in 1..Len(off_ship) : off_ship[k].diagnosed
  /\ last_test # <<>> =>
        (people[last_test[1]].diagnosed => (last_test[2] /\ last_test[3]))

\* C6: the person tested last recovered on the day of the test and stays
\* undiagnosed, in people
C6_Witness ==
  /\ last_test # <<>> /\ ~last_test[2]
  /\ people[last_test[1]].recovered /\ ~people[last_test[1]].diagnosed
  /\ results["recoveries"][t] >= 1 /\ results["n_recovered"][t] >= 1

\* C7: multi_run with one replica returns the series and the population the
\* run of its one replica produced, and that replica has the seed and the
\* population-size parameter of the original, as the returned sim has.
C7_OneReplica ==
  (mr # <<>> /\ mr[1].done /\ mr[1].n = 1) =>
     LET m == mr[1]  direct == m.finished[1]
     IN /\ results = direct.results
        /\ people = direct.people /\ off_ship = direct.off_ship
        /\ direct.pars.seed = m.orig.pars.seed /\ direct.pars.n = m.orig.pars.n
        /\ pars.seed = m.orig.pars.seed /\ pars.n = m.orig.pars.n

\* C7: multi_run with one replica has returned a run with an infection
C7_Witness ==
  /\ mr # <<>> /\ mr[1].done /\ mr[1].n = 1 /\ pc = "idle"
  /\ results["cum_exposed"][pars.n_days] >= 1 /\ Len(people) >= 2

\* C8: in Scenario A with its two persons, once the person loop of day 0 is
\* over, or the run has ended, infections[0] is 1.
C8_ScenarioA ==
  (/\ runs = 1 /\ Len(people) = 2
   /\ t >= 1 \/ pc \in {"testing", "endday", "finish", "idle", "error"})
  => results["infections"][0] = 1

\* What the testing step raises
TestingErrors == {"AttributeError", "TestValueError"}

\* C9: tests[d] is set only on a day of the data whose test count is defined
\* and positive, a diagnosis is made only on such a day, and the testing step
\* raises nothing.
C9_TestingOnlyWhenDefined ==
  /\ err \notin TestingErrors
  /\ \A d \in tvec(pars) :
        /\ results["tests"][d] # 0 =>
              /\ d < dataLen /\ d + 1 <= Len(data.new_tests)
              /\ data.new_tests[d + 1] \notin {0, NaN}
        /\ results["diagnoses"][d] # 0 => results["tests"][d] # 0

\* C10: everyone in people or off_ship who is infectious is exposed.
C10_InfectiousIsExposed == \A q \in Everyone : q.infectious => q.exposed

\* C10: a person exposed by a contact has become infectious
C10_Witness ==
  \E q \in Everyone : q.infectious /\ q.exposed /\ q.date_recovered # None

C12_Step ==
  creations' = creations =>
     \A q \in Everyone : \A r \in Range(people') \cup Range(off_ship') :
        r.uid = q.uid =>
           /\ q.date_exposed # None => r.date_exposed = q.date_exposed
           /\ q.date_infectious # None => r.date_infectious = q.date_infectious
           /\ q.date_recovered # None => r.date_recovered = q.date_recovered

C13_UidsUnique ==
  /\ Len(people) + Len(off_ship) = pars.n_crew + pars.n_guests
  /\ \A a, b \in 1..Len(people) : a # b => people[a].uid # people[b].uid
  /\ \A a \in Range(people) : \A b \in Range(off_ship) : a.uid # b.uid
  /\ off_ship = <<>> =>
        \A k \in 1..Len(people) : k <= pars.n_crew + pars.n_guests /\ people[k].crew = CrewFlags(pars)[k]

\* The contact rate Person.__init__ gives a person under the pars of the
\* construction
InitialContacts(q) == IF q.crew = 1 THEN pars0.contacts_crew ELSE pars0.contacts_guest

RECURSIVE ScoreSum(_, _, _)
\* The sum of the scores of the days 0..d-1 that have a defined datum in col
\* and a place in the series diagnoses
ScoreSum(diagnoses, col, d) ==
  IF d = 0 THEN 0
  ELSE ScoreSum(diagnoses, col, d - 1)
       + (IF col[d] # NaN /\ (d - 1) \in DOMAIN diagnoses
            THEN logp(col[d], diagnoses[d - 1]) ELSE 0)

\* C16: likelihood raises no IndexError, and the likelihood it stores is the
\* sum of the scores of the days that have a defined observed value and lie
\* within the run.
C16_LikelihoodScoresDefinedDays ==
  /\ err # "IndexError"
  /\ likelihood # NoLike =>
        likelihood = ScoreSum(results["diagnoses"], data.new_positives, dataLen)

C19_OneLoopPerRun ==
  /\ loops <= runs
  /\ creations <= runs + 1
  /\ ready => loops = 1

\* C20: everyone who is infectious has a recovery day, and the recovery check
\* of line 214 raises nothing.
C20_InfectiousHasRecoveryDay ==
  /\ \A q \in Everyone : q.infectious => q.date_recovered # None
  /\ err # "TypeError"

====
